---- MODULE Spec2Model ----
(***************************************************************************)
(* Multi-GPU training driver of lib/fast_rcnn/train.py: the parent process *)
(* (train_net_multi_gpus), the worker processes (train_net), the           *)
(* SolverWrapper each worker builds, its training loop (train_model) and   *)
(* its snapshot procedure (snapshot).                                      *)
(*                                                                         *)
(* Tensors are sequences: a bias, a vector of means or of stds is a        *)
(* sequence with one entry per regression dimension, a weight is a         *)
(* sequence of rows (one per regression dimension).  Python's None is the  *)
(* empty sequence.  Strings that the code concatenates are sequences of    *)
(* string tokens, so that a file name is built the way the code builds it. *)
(***************************************************************************)
EXTENDS Integers, Sequences, FiniteSets, TLC

\* ------------------------------------------------------------- bounds
MaxGpus == 3
MaxIters == 10
MaxSnapshotIters == 4
NumDims == 2
MaxRoidbLen == 5
MaxFilterCalls == 2

\* ------------------------------------------------- program constants
DisplayFactor == 10
DefaultLastSnapshotIter == -1

\* ------------------------------------------------------ value domains
Procs == 0 .. (MaxGpus - 1)
Dims == 1 .. NumDims
WeightCols == {1}
ParamVals == {-1, 2}
MeanVals == {0, 1}
StdVals == {1, 2}
ImsPerBatchVals == {1, 2}
RealBatchVals == {2, 3, 4}
DisplayVals == {0, 1}

None == <<>>
Vectors(S) == [Dims -> S]
Matrices(S) == [Dims -> [WeightCols -> S]]

VARIABLES
    cfg,                 \* cfg.TRAIN.*, the solver prototxt, the arguments
    ppc,                 \* the parent's position in train_net_multi_gpus
    nccl_uid,            \* the id caffe.NCCL.new_uid() returned (0: none yet)
    uid_calls,           \* how many times new_uid() was called
    stats,               \* the parent's (bbox_means, bbox_stds)
    stats_calls,         \* how many times add_bbox_regression_targets ran
    spawned,             \* ranks for which a Process was started
    joined,              \* how many of procs the parent has joined
    mp_queue,            \* the multiprocessing Queue
    gets,                \* how many values the parent has read from it
    result,              \* what train_net_multi_gpus returned
    roidb,               \* the parent's roidb
    stats_roidb,         \* the roidb add_bbox_regression_targets was given
    stdout,              \* the lines filter_roidb printed
    pc,                  \* each worker's position
    rank,                \* self.rank of each worker's SolverWrapper
    args,                \* the arguments each Process was started with
    sw_stats,            \* self.bbox_means, self.bbox_stds
    iter,                \* self.solver.iter
    weight,              \* net.params['bbox_pred'][0].data
    bias,                \* net.params['bbox_pred'][1].data
    other,               \* every other parameter of the net
    orig_0,              \* snapshot()'s saved copy of the weight
    orig_1,              \* snapshot()'s saved copy of the bias
    snap_ret,            \* where the running snapshot() call returns to
    snap_entry,          \* the net's parameters when snapshot() was entered
    snap_result,         \* the filename the last snapshot() call returned
    last_snapshot_iter,  \* train_model's local
    model_paths,         \* train_model's local
    start_iter,          \* self.solver.iter when train_model was called
    stderr,              \* diagnostic lines each worker wrote
    group,               \* ranks that created their NCCL object
    hooked,              \* workers whose net has the after_backward hook
    contrib,             \* gradients each worker handed to the all-reduce
    files,               \* the checkpoint files on disk
    init_log             \* what each worker's __init__ did to its solver

vars == << cfg, ppc, nccl_uid, uid_calls, stats, stats_calls, spawned, joined,
           mp_queue, gets, result, pc, rank, args, sw_stats, iter, weight, bias,
           other, orig_0, orig_1, snap_ret, snap_entry, snap_result,
           last_snapshot_iter, model_paths, stderr, group, hooked, contrib,
           files, init_log, roidb, stats_roidb, stdout, start_iter >>

parentVars == << ppc, nccl_uid, uid_calls, stats, stats_calls, spawned, joined,
                 gets, result, roidb, stats_roidb, stdout >>
netVars == << weight, bias, other >>
snapVars == << orig_0, orig_1, snap_ret, snap_entry, snap_result >>
loopVars == << last_snapshot_iter, model_paths, start_iter >>
ncclVars == << group, hooked, contrib >>

Workers == 0 .. (cfg.gpus - 1)

\* ------------------------------------------------------------ helpers
Digit(d) == << "0", "1", "2", "3", "4", "5", "6", "7", "8", "9" >>[d + 1]

RECURSIVE Decimal(_)
\* '{:d}'.format(n) for n >= 0
Decimal(n) == IF n < 10 THEN << Digit(n) >>
              ELSE Decimal(n \div 10) \o << Digit(n % 10) >>

\* ------------------------------------------- SolverWrapper.__init__
\* lines 35-39: with RPN, normalized targets must be precomputed
RpnStatsPrecomputed ==
    (cfg.HAS_RPN /\ cfg.BBOX_REG /\ cfg.BBOX_NORMALIZE_TARGETS)
        => cfg.BBOX_NORMALIZE_TARGETS_PRECOMPUTED

\* A faulty variant of BatchSizeConsistent: the batch size not checked.
BatchSizeUnchecked == TRUE

\* line 43: caffe.solver_count() is len(gpus), set by train_net (line 200)
BatchSizeConsistent ==
    cfg.gpus * cfg.IMS_PER_BATCH * cfg.iter_size = cfg.REAL_BATCH_SIZE

\* A faulty variant of LoadedNet: the pretrained model not loaded.
LoadedNetAsBuilt == cfg.net_init

\* lines 47-50: the net after solver.net.copy_from(pretrained_model), or the
\* net as the solver built it
LoadedNet ==
    IF cfg.pretrained_model # None THEN cfg.pretrained_model ELSE cfg.net_init

\* A faulty variant of HeldStats: the stds taken for the means as well.
HeldStatsMixed(p) ==
    [means |-> args[p].bbox_stds, stds |-> args[p].bbox_stds]

\* line 34: self.bbox_means, self.bbox_stds = bbox_means, bbox_stds
HeldStats(p) ==
    [means |-> args[p].bbox_means, stds |-> args[p].bbox_stds]

\* train_net lines 198-205 and __init__ lines 31-52: the worker binds its
\* device, stores its rank and the stats, builds the solver, checks the
\* batch size, loads the pretrained weights and creates its NCCL object,
\* which joins the group the uid names.
Construct(p) ==
    /\ pc[p] = "start"
    /\ rank' = [rank EXCEPT ![p] = args[p].rank]
    /\ sw_stats' = [sw_stats EXCEPT ![p] =
            IF cfg.BBOX_REG THEN HeldStats(p) ELSE @]
    /\ IF ~RpnStatsPrecomputed
       THEN /\ pc' = [pc EXCEPT ![p] = "err_rpn"]
            /\ UNCHANGED << iter, netVars, group, init_log >>
       ELSE IF ~BatchSizeConsistent
       THEN /\ pc' = [pc EXCEPT ![p] = "err_batch"]
            /\ iter' = [iter EXCEPT ![p] = 0]
            /\ weight' = [weight EXCEPT ![p] = cfg.net_init.weight]
            /\ bias' = [bias EXCEPT ![p] = cfg.net_init.bias]
            /\ other' = [other EXCEPT ![p] = cfg.net_init.other]
            /\ UNCHANGED << group, init_log >>
       ELSE /\ iter' = [iter EXCEPT ![p] = 0]
            /\ weight' = [weight EXCEPT ![p] = LoadedNet.weight]
            /\ bias' = [bias EXCEPT ![p] = LoadedNet.bias]
            /\ other' = [other EXCEPT ![p] = LoadedNet.other]
            /\ init_log' = [init_log EXCEPT ![p] =
                    @ \o (IF cfg.pretrained_model # None
                          THEN << "copy_from" >> ELSE << >>)]
            /\ group' = group \cup {<< args[p].nccl_uid, args[p].rank >>}
            /\ pc' = [pc EXCEPT ![p] = "bcast"]
    /\ UNCHANGED << cfg, parentVars, mp_queue, args, snapVars, loopVars,
                    stderr, hooked, contrib, files >>

\* The ranks of the group a worker's uid names have all joined it.
GroupComplete(p) ==
    \A r \in Workers : << args[p].nccl_uid, r >> \in group

\* The worker holding rank 0 of the group of p.
RootOf(p) ==
    CHOOSE q \in Workers :
        rank[q] = 0 /\ args[q].nccl_uid = args[p].nccl_uid

\* The broadcast of the root returns once every other rank of its group
\* holds what the root sent.
BcastDelivered(p) ==
    rank[p] = 0 => \A q \in Workers \ {p} : pc[q] # "bcast"

\* A faulty variant of AfterBackwardHooked: the all-reduce never hooked.
AfterBackwardNotHooked == FALSE

\* lines 56-57: the gradient all-reduce is hooked after each backward pass
AfterBackwardHooked == cfg.layer_wise_reduce

\* lines 53-64: nccl.bcast() blocks until the whole group has joined, then
\* every rank holds the parameters the root entered it with; the callback is registered,
\* layer-wise reduce required, the all-reduce hooked after backward, the
\* solver parameters read and the roidb handed to the data layer.
NcclBcast(p) ==
    /\ pc[p] = "bcast"
    /\ GroupComplete(p)
    /\ BcastDelivered(p)
    /\ weight' = [weight EXCEPT ![p] = weight[RootOf(p)]]
    /\ bias' = [bias EXCEPT ![p] = bias[RootOf(p)]]
    /\ other' = [other EXCEPT ![p] = other[RootOf(p)]]
    /\ IF cfg.layer_wise_reduce
       THEN /\ hooked' = [hooked EXCEPT ![p] = AfterBackwardHooked]
            /\ init_log' = [init_log EXCEPT ![p] =
                    @ \o << "bcast", "add_callback", "after_backward" >>]
            /\ pc' = [pc EXCEPT ![p] = "constructed"]
       ELSE /\ pc' = [pc EXCEPT ![p] = "err_lwr"]
            /\ init_log' = [init_log EXCEPT ![p] =
                    @ \o << "bcast", "add_callback" >>]
            /\ UNCHANGED hooked
    /\ UNCHANGED << cfg, parentVars, mp_queue, rank, args, sw_stats, iter,
                    snapVars, loopVars, stderr, group, contrib, files >>

\* ------------------------------------------------ SolverWrapper.snapshot
\* A faulty variant of SnapshotAllowed: the assertion dropped.
SnapshotUnchecked(p) == TRUE

\* line 70: assert self.rank==0
SnapshotAllowed(p) == rank[p] = 0

\* lines 73-75
scale_bbox_params(p) ==
    /\ cfg.BBOX_REG
    /\ cfg.BBOX_NORMALIZE_TARGETS
    /\ weight[p] # None

\* lines 83-85: weight * bbox_stds[:, np.newaxis], row d scaled by stds[d]
ScaleWeight(w, stds) ==
    [d \in Dims |-> [c \in WeightCols |-> w[d][c] * stds[d]]]

\* A faulty variant of ScaleBias: the means not added back.
ScaleBiasNoShift(b, stds, means) == [d \in Dims |-> b[d] * stds[d]]

\* lines 86-88: bias * bbox_stds + bbox_means
ScaleBias(b, stds, means) == [d \in Dims |-> b[d] * stds[d] + means[d]]

\* A faulty variant of Infix: the separator written whatever the infix.
InfixUnconditional == << "_" >> \o cfg.SNAPSHOT_INFIX

\* lines 90-91
Infix == IF cfg.SNAPSHOT_INFIX # << >>
         THEN << "_" >> \o cfg.SNAPSHOT_INFIX
         ELSE << >>

\* lines 92-94: os.path.join(output_dir, prefix + infix + '_iter_N.caffemodel')
Filename(p) ==
    << cfg.output_dir, "/" >> \o cfg.snapshot_prefix \o Infix
        \o << "_iter_" >> \o Decimal(iter[p]) \o << ".caffemodel" >>

\* line 96: net.save writes every parameter of the net as it is in memory
SavedNet(p) ==
    [path |-> Filename(p), by |-> rank[p], weight |-> weight[p],
     bias |-> bias[p], other |-> other[p]]

\* A faulty variant of RestoredWeight: the weight left as the snapshot scaled it.
RestoredWeightStale(p) == weight[p]

\* A faulty variant of RestoredBias: the bias left as the snapshot shifted it.
RestoredBiasStale(p) == bias[p]

\* lines 101-102: what the live parameters are set back to
RestoredWeight(p) == orig_0[p]
RestoredBias(p) == orig_1[p]

\* The call of snapshot(): control enters the procedure with the net as
\* the caller left it (w, b, o).
EnterSnapshot(p, ret, w, b, o) ==
    /\ pc' = [pc EXCEPT ![p] = "snapshot"]
    /\ snap_ret' = [snap_ret EXCEPT ![p] = ret]
    /\ snap_entry' = [snap_entry EXCEPT ![p] =
            [weight |-> w, bias |-> b, other |-> o]]

\* lines 70-88: the rank is asserted; then the regression head is copied
\* and unnormalized in place
SnapScale(p) ==
    /\ pc[p] = "snapshot"
    /\ IF ~SnapshotAllowed(p)
       THEN /\ pc' = [pc EXCEPT ![p] = "err_rank"]
            /\ UNCHANGED << orig_0, orig_1, weight, bias >>
       ELSE /\ pc' = [pc EXCEPT ![p] = "snap_save"]
            /\ IF scale_bbox_params(p)
               THEN /\ orig_0' = [orig_0 EXCEPT ![p] = weight[p]]
                    /\ orig_1' = [orig_1 EXCEPT ![p] = bias[p]]
                    /\ weight' = [weight EXCEPT ![p] =
                            ScaleWeight(weight[p], sw_stats[p].stds)]
                    /\ bias' = [bias EXCEPT ![p] =
                            ScaleBias(bias[p], sw_stats[p].stds,
                                      sw_stats[p].means)]
               ELSE UNCHANGED << orig_0, orig_1, weight, bias >>
    /\ UNCHANGED << cfg, parentVars, mp_queue, rank, args, sw_stats, iter,
                    other, snap_ret, snap_entry, snap_result, loopVars,
                    stderr, ncclVars, files, init_log >>

\* lines 90-97: name the file and write the net to it
SnapSave(p) ==
    /\ pc[p] = "snap_save"
    /\ files' = {f \in files : f.path # Filename(p)} \cup {SavedNet(p)}
    /\ pc' = [pc EXCEPT ![p] = "snap_restore"]
    /\ UNCHANGED << cfg, parentVars, mp_queue, rank, args, sw_stats, iter,
                    netVars, snapVars, loopVars, stderr, ncclVars, init_log >>

\* line 96, when the write fails: net.save raises (or aborts the process),
\* and nothing after it in snapshot() runs.
SnapSaveFails(p) ==
    /\ pc[p] = "snap_save"
    /\ pc' = [pc EXCEPT ![p] = "err_save"]
    /\ UNCHANGED << cfg, parentVars, mp_queue, rank, args, sw_stats, iter,
                    netVars, snapVars, loopVars, stderr, ncclVars, files,
                    init_log >>

\* lines 99-103, and the caller's use of the returned filename (lines 121
\* and 124): the live regression head is set back, the filename returned.
SnapRestore(p) ==
    /\ pc[p] = "snap_restore"
    /\ IF scale_bbox_params(p)
       THEN /\ weight' = [weight EXCEPT ![p] = RestoredWeight(p)]
            /\ bias' = [bias EXCEPT ![p] = RestoredBias(p)]
       ELSE UNCHANGED << weight, bias >>
    /\ snap_result' = [snap_result EXCEPT ![p] = Filename(p)]
    /\ IF snap_ret[p] = "client"
       THEN /\ pc' = [pc EXCEPT ![p] = "client"]
            /\ UNCHANGED model_paths
       ELSE /\ model_paths' = [model_paths EXCEPT ![p] =
                    Append(@, Filename(p))]
            /\ pc' = [pc EXCEPT ![p] =
                    IF snap_ret[p] = "loop" THEN "loop" ELSE "returned"]
    /\ UNCHANGED << cfg, parentVars, mp_queue, rank, args, sw_stats, iter,
                    other, orig_0, orig_1, snap_ret, snap_entry,
                    last_snapshot_iter, start_iter, stderr, ncclVars, files,
                    init_log >>

\* --------------------------------------------- SolverWrapper.train_model
\* lines 105-109, entered from train_net line 206
TrainModel(p) ==
    /\ pc[p] = "constructed"
    /\ last_snapshot_iter' =
            [last_snapshot_iter EXCEPT ![p] = DefaultLastSnapshotIter]
    /\ model_paths' = [model_paths EXCEPT ![p] = << >>]
    /\ start_iter' = [start_iter EXCEPT ![p] = iter[p]]
    /\ pc' = [pc EXCEPT ![p] = "loop"]
    /\ UNCHANGED << cfg, parentVars, mp_queue, rank, args, sw_stats, iter,
                    netVars, snapVars, stderr, ncclVars, files, init_log >>

\* A faulty variant of FinalSnapshotDue: no final snapshot.
FinalSnapshotNever(p) == FALSE

\* A faulty variant of FinalSnapshotDue: the final snapshot taken whether or not the
\* last iteration was snapshotted in the loop.
FinalSnapshotAlways(p) == rank[p] = 0

\* line 123
FinalSnapshotDue(p) == rank[p] = 0 /\ last_snapshot_iter[p] # iter[p]

\* A faulty variant of LoopContinues: one pass more.
LoopContinuesInclusive(p) == iter[p] <= cfg.max_iters

\* line 110: while self.solver.iter < max_iters
LoopContinues(p) == iter[p] < cfg.max_iters

\* line 110, and either the first half of line 113 (forward and backward;
\* the after_backward hook hands the local gradient to the group's
\* all-reduce) or, the loop being over, lines 123-125.
LoopTest(p) ==
    /\ pc[p] = "loop"
    /\ IF LoopContinues(p)
       THEN /\ contrib' = [contrib EXCEPT ![p] = IF hooked[p] THEN @ + 1 ELSE @]
            /\ pc' = [pc EXCEPT ![p] = "sync"]
            /\ UNCHANGED << snap_ret, snap_entry >>
       ELSE /\ IF FinalSnapshotDue(p)
               THEN EnterSnapshot(p, "final", weight[p], bias[p], other[p])
               ELSE /\ pc' = [pc EXCEPT ![p] = "returned"]
                    /\ UNCHANGED << snap_ret, snap_entry >>
            /\ UNCHANGED contrib
    /\ UNCHANGED << cfg, parentVars, mp_queue, rank, args, sw_stats, iter,
                    netVars, orig_0, orig_1, snap_result, loopVars, stderr,
                    group, hooked, files, init_log >>

\* The all-reduce of the step p is in has every rank's gradient.
GradientsReduced(p) ==
    hooked[p] => \A q \in Workers : contrib[q] >= contrib[p]

\* The solver's update of one parameter value (the solver is a black box:
\* this is one update rule over the modelled values).
SgdUpdate(v) == IF v = 2 THEN -1 ELSE 2

\* The net after one solver step.
SteppedWeight(w) ==
    [d \in DOMAIN w |-> [c \in DOMAIN w[d] |-> SgdUpdate(w[d][c])]]
SteppedBias(b) == [d \in DOMAIN b |-> SgdUpdate(b[d])]

\* line 116: the display test divides by 10 * display
DisplayRaises == DisplayFactor * cfg.display = 0
DisplayDue(it) == it % (DisplayFactor * cfg.display) = 0

\* line 119
SnapshotDue(p, it) == rank[p] = 0 /\ it % cfg.SNAPSHOT_ITERS = 0

\* line 113, second half, to line 121: once the gradients are reduced the
\* solver applies the update and counts the iteration; then the diagnostic
\* line (ZeroDivisionError when the solver's display is 0) and, on the root
\* every SNAPSHOT_ITERS iterations, the call of snapshot().
StepUpdate(p) ==
    /\ pc[p] = "sync"
    /\ GradientsReduced(p)
    /\ iter' = [iter EXCEPT ![p] = @ + 1]
    /\ weight' = [weight EXCEPT ![p] = SteppedWeight(@)]
    /\ bias' = [bias EXCEPT ![p] = SteppedBias(@)]
    /\ other' = [other EXCEPT ![p] = SgdUpdate(@)]
    /\ IF DisplayRaises
       THEN /\ pc' = [pc EXCEPT ![p] = "err_display"]
            /\ UNCHANGED << stderr, last_snapshot_iter, snap_ret, snap_entry >>
       ELSE /\ stderr' = [stderr EXCEPT ![p] =
                    IF DisplayDue(iter[p] + 1)
                    THEN Append(@, [rank |-> rank[p],
                                    iteration |-> iter[p] + 1])
                    ELSE @]
            /\ IF SnapshotDue(p, iter[p] + 1)
               THEN /\ last_snapshot_iter' =
                         [last_snapshot_iter EXCEPT ![p] = iter[p] + 1]
                    /\ EnterSnapshot(p, "loop", SteppedWeight(weight[p]),
                                     SteppedBias(bias[p]), SgdUpdate(other[p]))
               ELSE /\ pc' = [pc EXCEPT ![p] = "loop"]
                    /\ UNCHANGED << last_snapshot_iter, snap_ret, snap_entry >>
    /\ UNCHANGED << cfg, parentVars, mp_queue, rank, args, sw_stats,
                    orig_0, orig_1, snap_result, model_paths, start_iter,
                    ncclVars, files, init_log >>

\* ------------------------------------------------------------ train_net
\* A faulty variant of PutsResult: every rank puts its list.
PutsResultAnyRank(p) == TRUE

\* line 207
PutsResult(p) == args[p].rank = 0

\* lines 207-208, then the process ends
TrainNetPut(p) ==
    /\ pc[p] = "returned"
    /\ mp_queue' = IF PutsResult(p)
                   THEN Append(mp_queue,
                               [by |-> args[p].rank, val |-> model_paths[p]])
                   ELSE mp_queue
    /\ pc' = [pc EXCEPT ![p] = "exited"]
    /\ UNCHANGED << cfg, parentVars, rank, args, sw_stats, iter, netVars,
                    snapVars, loopVars, stderr, ncclVars, files, init_log >>

\* A worker process that has ended, normally or by an uncaught exception.
ErrPcs == {"err_rpn", "err_batch", "err_lwr", "err_display", "err_rank",
           "err_save"}
Terminated(p) == pc[p] \in ErrPcs \cup {"exited"}

\* ---------------------------------------------------------- filter_roidb
\* Overlaps, thresholds and the minimum ratio are counted in hundredths.
Percent == 100

\* A faulty variant of is_valid: the image ratio not tested.
is_valid_any_ratio(entry) ==
    \E i \in 1 .. Len(entry.max_overlaps) :
        \/ entry.max_overlaps[i] >= cfg.FG_THRESH
        \/ /\ entry.max_overlaps[i] < cfg.BG_THRESH_HI
           /\ entry.max_overlaps[i] >= cfg.BG_THRESH_LO

Min(a, b) == IF a <= b THEN a ELSE b
Max(a, b) == IF a >= b THEN a ELSE b

\* lines 143-158: fg_inds and bg_inds are the positions of the overlaps that
\* pass the thresholds; ratio = min(h, w) / float(max(h, w)) is compared
\* with MIN_IM_RATIO as a fraction, both sides multiplied by max(h, w)
is_valid(entry) ==
    LET overlaps == entry.max_overlaps
        fg_inds == {i \in 1 .. Len(overlaps) : overlaps[i] >= cfg.FG_THRESH}
        bg_inds == {i \in 1 .. Len(overlaps) :
                        /\ overlaps[i] < cfg.BG_THRESH_HI
                        /\ overlaps[i] >= cfg.BG_THRESH_LO}
        valid == Cardinality(fg_inds) > 0 \/ Cardinality(bg_inds) > 0
        w == entry.width
        h == entry.height
    IN  /\ Min(h, w) * Percent > cfg.MIN_IM_RATIO * Max(h, w)
        /\ valid

\* A faulty variant of filter_roidb: the last valid entry is lost.
filter_roidb_short(r) ==
    LET kept == SelectSeq(r, is_valid)
    IN  IF kept = << >> THEN kept ELSE SubSeq(kept, 1, Len(kept) - 1)

\* line 161: [entry for entry in roidb if is_valid(entry)]
filter_roidb(r) == SelectSeq(r, is_valid)

\* lines 160-164: the line filter_roidb prints
FilterReport(r) ==
    LET num == Len(r)
        num_after == Len(filter_roidb(r))
    IN  [removed |-> num - num_after, num |-> num, num_after |-> num_after]

\* A call of filter_roidb by a caller that keeps the result in place of the
\* collection it passed.
ClientFilter ==
    /\ ppc = "filter"
    /\ Len(stdout) < MaxFilterCalls
    /\ roidb' = filter_roidb(roidb)
    /\ stdout' = Append(stdout, FilterReport(roidb))
    /\ UNCHANGED << cfg, ppc, nccl_uid, uid_calls, stats, stats_calls,
                    stats_roidb, spawned, joined, gets, result, mp_queue, pc,
                    rank, args, sw_stats, iter, netVars, snapVars, loopVars,
                    stderr, ncclVars, files, init_log >>

\* ------------------------------------------------- train_net_multi_gpus
\* lines 169-170: filter the roidb, draw the group's uid
ParentPrepare ==
    /\ ppc = "prepare"
    /\ roidb' = filter_roidb(roidb)
    /\ stdout' = Append(stdout, FilterReport(roidb))
    /\ nccl_uid' = uid_calls + 1
    /\ uid_calls' = uid_calls + 1
    /\ ppc' = "stats"
    /\ UNCHANGED << cfg, stats, stats_calls, stats_roidb, spawned, joined,
                    gets, result, mp_queue, pc, rank, args, sw_stats, iter,
                    netVars, snapVars, loopVars, stderr, ncclVars, files,
                    init_log >>

\* lines 172-180: the regression targets are normalized once, over the whole
\* roidb, which gives the means and stds; then the queue is made
ParentStats ==
    /\ ppc = "stats"
    /\ IF cfg.BBOX_REG
       THEN /\ stats' = cfg.roidb_stats
            /\ stats_calls' = stats_calls + 1
            /\ stats_roidb' = roidb
       ELSE /\ stats' = [means |-> None, stds |-> None]
            /\ UNCHANGED << stats_calls, stats_roidb >>
    /\ ppc' = "spawn"
    /\ UNCHANGED << cfg, nccl_uid, uid_calls, spawned, joined, gets, result,
                    roidb, stdout, mp_queue, pc, rank, args, sw_stats, iter,
                    netVars, snapVars, loopVars, stderr, ncclVars, files,
                    init_log >>

\* A faulty variant of ProcessArgs: every process is started as rank 0.
ProcessArgsAllRoot(r) ==
    [rank |-> 0, nccl_uid |-> nccl_uid, roidb |-> roidb,
     bbox_means |-> stats.means, bbox_stds |-> stats.stds]

\* lines 182-186: the arguments of the Process of rank r
ProcessArgs(r) ==
    [rank |-> r, nccl_uid |-> nccl_uid, roidb |-> roidb,
     bbox_means |-> stats.means, bbox_stds |-> stats.stds]

\* lines 181-189: one Process per entry of gpus, started with its rank
ParentSpawn ==
    /\ ppc = "spawn"
    /\ spawned < cfg.gpus
    /\ args' = [args EXCEPT ![spawned] = ProcessArgs(spawned)]
    /\ pc' = [pc EXCEPT ![spawned] = "start"]
    /\ spawned' = spawned + 1
    /\ ppc' = IF spawned + 1 = cfg.gpus THEN "join" ELSE "spawn"
    /\ UNCHANGED << cfg, nccl_uid, uid_calls, stats, stats_calls, joined,
                    gets, result, roidb, stats_roidb, stdout, mp_queue, rank,
                    sw_stats, iter, netVars, snapVars, loopVars, stderr,
                    ncclVars, files, init_log >>

\* lines 190-191: p.join() returns once that process has ended
ParentJoin ==
    /\ ppc = "join"
    /\ Terminated(joined)
    /\ joined' = joined + 1
    /\ ppc' = IF joined + 1 = cfg.gpus THEN "get" ELSE "join"
    /\ UNCHANGED << cfg, nccl_uid, uid_calls, stats, stats_calls, spawned,
                    gets, result, roidb, stats_roidb, stdout, mp_queue, pc,
                    rank, args, sw_stats, iter, netVars, snapVars, loopVars,
                    stderr, ncclVars, files, init_log >>

\* line 193: Queue.get() blocks while the queue is empty
ParentGet ==
    /\ ppc = "get"
    /\ Len(mp_queue) > 0
    /\ result' = Head(mp_queue).val
    /\ mp_queue' = Tail(mp_queue)
    /\ gets' = gets + 1
    /\ ppc' = "done"
    /\ UNCHANGED << cfg, nccl_uid, uid_calls, stats, stats_calls, spawned,
                    joined, roidb, stats_roidb, stdout, pc, rank, args,
                    sw_stats, iter, netVars, snapVars, loopVars, stderr,
                    ncclVars, files, init_log >>

\* ------------------------------------------- a client of SolverWrapper
\* A direct call of snapshot() on a constructed SolverWrapper, by a caller
\* other than train_model; the caller makes one call at a time.
ClientSnapshot(p) ==
    /\ pc[p] = "client"
    /\ \A q \in Workers : pc[q] \in {"client", "err_rank", "err_save"}
    /\ EnterSnapshot(p, "client", weight[p], bias[p], other[p])
    /\ UNCHANGED << cfg, parentVars, mp_queue, rank, args, sw_stats, iter,
                    netVars, orig_0, orig_1, snap_result, loopVars, stderr,
                    ncclVars, files, init_log >>

\* ------------------------------------------------------- initial states
ConstVector(v) == [d \in Dims |-> v]
ConstMatrix(v) == [d \in Dims |-> [c \in WeightCols |-> v]]

\* The net as caffe.SGDSolver builds it (every rank seeds the same
\* cfg.RNG_SEED, line 203) and the net a pretrained model file holds.
BuiltNet == [weight |-> ConstMatrix(-1), bias |-> ConstVector(-1), other |-> -1]
PretrainedNet == [weight |-> ConstMatrix(2), bias |-> ConstVector(2), other |-> 2]

NoStats == [means |-> None, stds |-> None]

\* What add_bbox_regression_targets can return for the roidb of a run.
UniformStats == [means |-> ConstVector(1), stds |-> ConstVector(2)]
PerDimStats ==
    [means |-> [d \in Dims |-> d % 2], stds |-> [d \in Dims |-> 1 + (d % 2)]]

\* The inputs of a run that the snapshot reads: cfg.TRAIN.BBOX_REG,
\* BBOX_NORMALIZE_TARGETS, HAS_RPN, BBOX_NORMALIZE_TARGETS_PRECOMPUTED, the
\* stats of the roidb, and the pretrained model
RunInputs ==
    { << << TRUE, TRUE, FALSE, FALSE >>, UniformStats, None >>,
      << << TRUE, TRUE, TRUE, TRUE >>, PerDimStats, PretrainedNet >>,
      << << FALSE, TRUE, TRUE, FALSE >>, NoStats, PretrainedNet >>,
      << << TRUE, TRUE, TRUE, FALSE >>, UniformStats, None >> }

NoArgs == [rank |-> -1, nccl_uid |-> 0, roidb |-> << >>,
           bbox_means |-> None, bbox_stds |-> None]

\* Entries of a roidb: the fields filter_roidb reads.
Entry(o, w, h) == [max_overlaps |-> o, width |-> w, height |-> h]
EntryVals ==
    { Entry(<< 5, 50 >>, 4, 3), Entry(<< 30 >>, 3, 4), Entry(<< 5 >>, 4, 3),
      Entry(<< 50 >>, 1, 10), Entry(<< >>, 20, 1) }
Roidbs == UNION {[1 .. n -> EntryVals] : n \in 0 .. MaxRoidbLen}

\* cfg.TRAIN.FG_THRESH, BG_THRESH_HI, BG_THRESH_LO and MIN_IM_RATIO
FgThreshVals == {50}
BgThreshHiVals == {30, 50}
BgThreshLoVals == {0, 10}
MinImRatioVals == {10, 80}

\* The roidb a run is given.
RunRoidb ==
    << Entry(<< 5, 50 >>, 4, 3), Entry(<< >>, 20, 1), Entry(<< 30 >>, 3, 4) >>
NoNet == [weight |-> None, bias |-> None, other |-> 0]

Config(n, m, s, disp, ims, real, lwr, fl, st, pre, net, infix) ==
    [ gpus |-> n, max_iters |-> m, SNAPSHOT_ITERS |-> s, display |-> disp,
      IMS_PER_BATCH |-> ims, iter_size |-> 1, REAL_BATCH_SIZE |-> real,
      layer_wise_reduce |-> lwr,
      BBOX_REG |-> fl[1], BBOX_NORMALIZE_TARGETS |-> fl[2],
      HAS_RPN |-> fl[3], BBOX_NORMALIZE_TARGETS_PRECOMPUTED |-> fl[4],
      roidb_stats |-> st, pretrained_model |-> pre, net_init |-> net,
      SNAPSHOT_INFIX |-> infix, output_dir |-> "output",
      snapshot_prefix |-> << "model" >>,
      FG_THRESH |-> 50, BG_THRESH_HI |-> 50, BG_THRESH_LO |-> 10,
      MIN_IM_RATIO |-> 10, roidb |-> RunRoidb ]

\* A worker (or SolverWrapper) before anything has run in it.
InitWorkers ==
    /\ rank = [p \in Procs |-> -1]
    /\ args = [p \in Procs |-> NoArgs]
    /\ sw_stats = [p \in Procs |-> NoStats]
    /\ iter = [p \in Procs |-> 0]
    /\ weight = [p \in Procs |-> None]
    /\ bias = [p \in Procs |-> None]
    /\ other = [p \in Procs |-> 0]
    /\ hooked = [p \in Procs |-> FALSE]
    /\ init_log = [p \in Procs |-> << >>]

InitLocals ==
    /\ orig_0 = [p \in Procs |-> None]
    /\ orig_1 = [p \in Procs |-> None]
    /\ snap_ret = [p \in Procs |-> "none"]
    /\ snap_entry = [p \in Procs |-> NoNet]
    /\ snap_result = [p \in Procs |-> None]
    /\ last_snapshot_iter = [p \in Procs |-> DefaultLastSnapshotIter]
    /\ model_paths = [p \in Procs |-> << >>]
    /\ start_iter = [p \in Procs |-> 0]
    /\ stderr = [p \in Procs |-> << >>]
    /\ contrib = [p \in Procs |-> 0]
    /\ files = {}
    /\ mp_queue = << >>
    /\ gets = 0
    /\ result = None

\* A run of train_net_multi_gpus, from its call.
Init ==
    /\ \E n \in 1 .. MaxGpus, m \in 0 .. MaxIters,
          s \in 1 .. MaxSnapshotIters, disp \in DisplayVals,
          ims \in ImsPerBatchVals, real \in RealBatchVals, lwr \in BOOLEAN,
          in \in RunInputs :
            cfg = Config(n, m, s, disp, ims, real, lwr, in[1], in[2], in[3],
                         BuiltNet, << >>)
    /\ ppc = "prepare"
    /\ nccl_uid = 0
    /\ uid_calls = 0
    /\ stats = NoStats
    /\ stats_calls = 0
    /\ roidb = cfg.roidb
    /\ stats_roidb = << >>
    /\ stdout = << >>
    /\ spawned = 0
    /\ joined = 0
    /\ pc = [p \in Procs |-> "unborn"]
    /\ group = {}
    /\ InitWorkers
    /\ InitLocals

Next ==
    \/ ParentPrepare
    \/ ParentStats
    \/ ParentSpawn
    \/ ParentJoin
    \/ ParentGet
    \/ \E p \in Procs :
        \/ Construct(p)
        \/ NcclBcast(p)
        \/ TrainModel(p)
        \/ LoopTest(p)
        \/ StepUpdate(p)
        \/ SnapScale(p)
        \/ SnapSave(p)
        \/ SnapSaveFails(p)
        \/ SnapRestore(p)
        \/ TrainNetPut(p)

Spec == Init /\ [][Next]_vars

\* Two constructed SolverWrappers (ranks 0 and 1 of one group, holding the
\* same parameters, as after the broadcast and any number of lockstep
\* steps) whose snapshot() a client calls directly.
SnapCalls == { << 0, << >> >>, << 5000, << >> >>, << 5000, << "stage2" >> >> }
SnapGpus == {0, 1}

InitSnapshot ==
    /\ \E bbox_reg \in BOOLEAN, norm \in BOOLEAN, call \in SnapCalls,
          st \in [means : Vectors(MeanVals), stds : Vectors(StdVals)] :
            /\ cfg = Config(Cardinality(SnapGpus), MaxIters, 1, 1, 1,
                            Cardinality(SnapGpus), TRUE,
                            << bbox_reg, norm, FALSE, FALSE >>,
                            IF bbox_reg THEN st ELSE NoStats,
                            None, BuiltNet, call[2])
            /\ iter = [p \in Procs |-> IF p \in SnapGpus THEN call[1] ELSE 0]
            /\ contrib = [p \in Procs |->
                    IF p \in SnapGpus THEN call[1] ELSE 0]
    /\ ppc = "idle"
    /\ nccl_uid = 1
    /\ uid_calls = 1
    /\ stats = cfg.roidb_stats
    /\ stats_calls = IF cfg.BBOX_REG THEN 1 ELSE 0
    /\ roidb = filter_roidb(cfg.roidb)
    /\ stats_roidb = IF cfg.BBOX_REG THEN roidb ELSE << >>
    /\ stdout = << FilterReport(cfg.roidb) >>
    /\ spawned = cfg.gpus
    /\ joined = 0
    /\ pc = [p \in Procs |-> IF p \in SnapGpus THEN "client" ELSE "unborn"]
    /\ group = {<< 1, p >> : p \in SnapGpus}
    /\ rank = [p \in Procs |-> IF p \in SnapGpus THEN p ELSE -1]
    /\ args = [p \in Procs |->
            IF p \in SnapGpus
            THEN [rank |-> p, nccl_uid |-> 1, roidb |-> roidb,
                  bbox_means |-> stats.means, bbox_stds |-> stats.stds]
            ELSE NoArgs]
    /\ sw_stats = [p \in Procs |->
            IF p \in SnapGpus /\ cfg.BBOX_REG THEN stats ELSE NoStats]
    /\ \E w \in Matrices(ParamVals) \cup {None}, b \in Vectors(ParamVals),
          o \in ParamVals :
            /\ weight = [p \in Procs |-> IF p \in SnapGpus THEN w ELSE None]
            /\ bias = [p \in Procs |->
                    IF p \in SnapGpus /\ w # None THEN b ELSE None]
            /\ other = [p \in Procs |-> IF p \in SnapGpus THEN o ELSE 0]
    /\ hooked = [p \in Procs |-> p \in SnapGpus]
    /\ init_log = [p \in Procs |->
            IF p \in SnapGpus
            THEN << "bcast", "add_callback", "after_backward" >> ELSE << >>]
    /\ orig_0 = [p \in Procs |-> None]
    /\ orig_1 = [p \in Procs |-> None]
    /\ snap_ret = [p \in Procs |-> "none"]
    /\ snap_entry = [p \in Procs |-> NoNet]
    /\ snap_result = [p \in Procs |-> None]
    /\ last_snapshot_iter = [p \in Procs |-> DefaultLastSnapshotIter]
    /\ model_paths = [p \in Procs |-> << >>]
    /\ start_iter = [p \in Procs |-> 0]
    /\ stderr = [p \in Procs |-> << >>]
    /\ files = {}
    /\ mp_queue = << >>
    /\ gets = 0
    /\ result = None

NextSnapshot ==
    \E p \in SnapGpus :
        \/ ClientSnapshot(p)
        \/ SnapScale(p)
        \/ SnapSave(p)
        \/ SnapSaveFails(p)
        \/ SnapRestore(p)

SnapshotSpec == InitSnapshot /\ [][NextSnapshot]_vars

\* filter_roidb called on a roidb, and again on what it returned.
InitFilter ==
    /\ \E fg \in FgThreshVals, hi \in BgThreshHiVals, lo \in BgThreshLoVals,
          ratio \in MinImRatioVals, r \in Roidbs :
            cfg = [Config(1, 0, 1, 1, 1, 1, TRUE,
                          << FALSE, FALSE, FALSE, FALSE >>, NoStats, None,
                          BuiltNet, << >>)
                   EXCEPT !.FG_THRESH = fg, !.BG_THRESH_HI = hi,
                          !.BG_THRESH_LO = lo, !.MIN_IM_RATIO = ratio,
                          !.roidb = r]
    /\ ppc = "filter"
    /\ nccl_uid = 0
    /\ uid_calls = 0
    /\ stats = NoStats
    /\ stats_calls = 0
    /\ roidb = cfg.roidb
    /\ stats_roidb = << >>
    /\ stdout = << >>
    /\ spawned = 0
    /\ joined = 0
    /\ pc = [p \in Procs |-> "unborn"]
    /\ group = {}
    /\ InitWorkers
    /\ InitLocals

NextFilter == ClientFilter

FilterSpec == InitFilter /\ [][NextFilter]_vars

\* One constructed SolverWrapper, the only rank of its group, whose solver
\* has counted some iterations already, on which train_model is called; the
\* solver's steps and the writes of the checkpoints all complete, and what
\* can run does run.
StartIterVals == 0 .. (MaxIters + 1)

InitTrain ==
    /\ \E m \in 0 .. MaxIters, s \in 1 .. MaxSnapshotIters,
          disp \in DisplayVals :
            cfg = Config(1, m, s, disp, 1, 1, TRUE,
                         << TRUE, TRUE, FALSE, FALSE >>, UniformStats, None,
                         BuiltNet, << >>)
    /\ ppc = "idle"
    /\ nccl_uid = 1
    /\ uid_calls = 1
    /\ stats = cfg.roidb_stats
    /\ stats_calls = 1
    /\ roidb = filter_roidb(cfg.roidb)
    /\ stats_roidb = roidb
    /\ stdout = << FilterReport(cfg.roidb) >>
    /\ spawned = 1
    /\ joined = 0
    /\ pc = [p \in Procs |-> IF p = 0 THEN "constructed" ELSE "unborn"]
    /\ group = {<< 1, 0 >>}
    /\ rank = [p \in Procs |-> IF p = 0 THEN 0 ELSE -1]
    /\ args = [p \in Procs |->
            IF p = 0
            THEN [rank |-> 0, nccl_uid |-> 1, roidb |-> roidb,
                  bbox_means |-> stats.means, bbox_stds |-> stats.stds]
            ELSE NoArgs]
    /\ sw_stats = [p \in Procs |-> IF p = 0 THEN stats ELSE NoStats]
    /\ \E it \in StartIterVals : iter = [p \in Procs |-> IF p = 0 THEN it ELSE 0]
    /\ weight = [p \in Procs |-> IF p = 0 THEN BuiltNet.weight ELSE None]
    /\ bias = [p \in Procs |-> IF p = 0 THEN BuiltNet.bias ELSE None]
    /\ other = [p \in Procs |-> IF p = 0 THEN BuiltNet.other ELSE 0]
    /\ hooked = [p \in Procs |-> p = 0]
    /\ init_log = [p \in Procs |->
            IF p = 0
            THEN << "bcast", "add_callback", "after_backward" >> ELSE << >>]
    /\ InitLocals

NextTrain ==
    \/ TrainModel(0)
    \/ LoopTest(0)
    \/ StepUpdate(0)
    \/ SnapScale(0)
    \/ SnapSave(0)
    \/ SnapRestore(0)

TrainSpec == InitTrain /\ [][NextTrain]_vars /\ WF_vars(NextTrain)

\* Runs of train_net_multi_gpus together with SolverWrappers driven by a
\* client.
ClientInit == Init \/ InitSnapshot
ClientNext == Next \/ NextSnapshot
ClientSpec == ClientInit /\ [][ClientNext]_vars

\* =============================================================== claims
\* The workers whose train_model has returned.
Returned(p) == pc[p] \in {"returned", "exited"}

\* The checkpoint path of iteration k.
IterPath(k) ==
    << cfg.output_dir, "/" >> \o cfg.snapshot_prefix
        \o (IF cfg.SNAPSHOT_INFIX = << >> THEN << >>
            ELSE << "_" >> \o cfg.SNAPSHOT_INFIX)
        \o << "_iter_" >> \o Decimal(k) \o << ".caffemodel" >>
PathsOf(its) == [i \in 1 .. Len(its) |-> IterPath(its[i])]

\* The multiples of s in 1..m, increasing.
MultiplesUpTo(m, s) ==
    SelectSeq([k \in 1 .. m |-> k], LAMBDA k : k % s = 0)

\* The snapshot iterations C1 states: the multiples, then m when it is none.
ClaimedIters(m, s) ==
    MultiplesUpTo(m, s) \o (IF m % s # 0 THEN << m >> ELSE << >>)

\* The same, with the run of no iteration snapshotted once, at iteration 0.
AmendedIters(m, s) == IF m = 0 THEN << 0 >> ELSE ClaimedIters(m, s)

\* C1 as stated: when train_model returns on the root, its list is one path
\* per multiple of SNAPSHOT_ITERS in 1..max_iters, in increasing order, then
\* one for max_iters exactly when max_iters is no multiple; the parent
\* returns that list.
C1_PathsAsClaimed ==
    /\ \A p \in Procs : (rank[p] = 0 /\ Returned(p)) =>
            model_paths[p] =
                PathsOf(ClaimedIters(cfg.max_iters, cfg.SNAPSHOT_ITERS))
    /\ ppc = "done" =>
            result = PathsOf(ClaimedIters(cfg.max_iters, cfg.SNAPSHOT_ITERS))

\* C1 amended: as C1 for max_iters >= 1; for max_iters = 0 the list is the
\* single path of iteration 0.
C1_PathsAmended ==
    /\ \A p \in Procs : (rank[p] = 0 /\ Returned(p)) =>
            model_paths[p] =
                PathsOf(AmendedIters(cfg.max_iters, cfg.SNAPSHOT_ITERS))
    /\ ppc = "done" =>
            result = PathsOf(AmendedIters(cfg.max_iters, cfg.SNAPSHOT_ITERS))

C1_Witness ==
    /\ cfg.gpus = 3 /\ cfg.max_iters = 10 /\ cfg.SNAPSHOT_ITERS = 4
    /\ ppc = "done"
    /\ result = << IterPath(4), IterPath(8), IterPath(10) >>

\* C2: every checkpoint file was written by rank 0; train_model on another
\* rank never calls snapshot() and returns the empty list; snapshot() called
\* on another rank fails having changed no parameter and written no file.
C2_OnlyRootWrites ==
    /\ \A f \in files : f.by = 0
    /\ \A p \in Procs : rank[p] # 0 =>
            /\ snap_ret[p] \notin {"loop", "final"}
            /\ pc[p] \notin {"snap_save", "snap_restore", "err_save"}
            /\ Returned(p) => model_paths[p] = << >>
            /\ snap_result[p] = None
    /\ \A p \in Procs : pc[p] = "err_rank" =>
            /\ rank[p] # 0
            /\ weight[p] = snap_entry[p].weight
            /\ bias[p] = snap_entry[p].bias
            /\ other[p] = snap_entry[p].other

C2_Witness ==
    /\ \E p \in Procs : pc[p] = "err_rank" /\ weight[p] # None
    /\ files # {}

\* C3: when snapshot() has returned, the live weight and bias of the
\* regression head, and every other parameter, are what they were when it
\* was called.
C3_SnapshotRoundTrip ==
    \A p \in Procs : (pc[p] = "client" /\ snap_result[p] # None) =>
        /\ weight[p] = snap_entry[p].weight
        /\ bias[p] = snap_entry[p].bias
        /\ other[p] = snap_entry[p].other

C3_Witness ==
    \E p \in Procs :
        /\ pc[p] = "client" /\ snap_result[p] # None
        /\ \E f \in files : f.weight # weight[p] /\ f.bias # bias[p]

\* The regression head as C4 says it is persisted.
Unnormalized(net) ==
    IF cfg.BBOX_REG /\ cfg.BBOX_NORMALIZE_TARGETS /\ net.weight # None
    THEN [weight |-> [d \in Dims |-> [c \in WeightCols |->
                        net.weight[d][c] * stats.stds[d]]],
          bias |-> [d \in Dims |->
                        net.bias[d] * stats.stds[d] + stats.means[d]],
          other |-> net.other]
    ELSE net

\* C4: the file snapshot() writes holds weight * std and bias * std + mean
\* per dimension, of the live values at the call, when regression and
\* target normalization are on and the net has a regression head; the live
\* values themselves otherwise.
C4_PersistedUnnormalized ==
    \A p \in Procs : pc[p] = "snap_restore" =>
        \E f \in files :
            /\ f.path = IterPath(iter[p])
            /\ [weight |-> f.weight, bias |-> f.bias, other |-> f.other]
                    = Unnormalized(snap_entry[p])

C4_Witness ==
    \E p \in Procs :
        /\ pc[p] = "snap_restore"
        /\ scale_bbox_params(p)
        /\ stats.stds[1] # stats.stds[2]
        /\ stats.means[1] # 0
        /\ \E f \in files : f.bias # snap_entry[p].bias

\* C5: the queue never holds more than one value, and none once the parent
\* has read; a value in it was put by rank 0 after its train_model
\* returned and is its list of paths; the parent reads once, after every
\* worker has ended, and returns the root's list.
C5_ResultChannel ==
    /\ Len(mp_queue) + gets <= 1
    /\ \A i \in 1 .. Len(mp_queue) :
            /\ mp_queue[i].by = 0
            /\ \E p \in Procs : /\ rank[p] = 0
                                /\ pc[p] = "exited"
                                /\ mp_queue[i].val = model_paths[p]
    /\ gets = (IF ppc = "done" THEN 1 ELSE 0)
    /\ ppc = "done" =>
            /\ \A p \in Workers : Terminated(p)
            /\ \E p \in Procs : rank[p] = 0 /\ result = model_paths[p]

C5_Witness ==
    /\ ppc = "done" /\ cfg.gpus = 3 /\ Len(result) >= 2
    /\ \A p \in Workers : pc[p] = "exited"

\* C6: no rank has counted an iteration for which some rank of the group
\* has not handed in its gradient, so counters differ by at most one, and
\* whenever no rank is inside a step all counters are equal; also while the
\* root is inside snapshot().
C6_Lockstep ==
    \A p \in Workers, q \in Workers :
        /\ iter[p] <= contrib[q]
        /\ contrib[q] <= iter[q] + 1
        /\ pc[q] # "sync" => contrib[q] = iter[q]

C6_Witness ==
    \E p \in Workers, q \in Workers :
        /\ rank[p] = 0 /\ pc[p] \in {"snapshot", "snap_save", "snap_restore"}
        /\ pc[q] = "sync" /\ contrib[q] = iter[p] + 1
        /\ iter[p] >= 2

\* The root worker ended by an exception, so without a put.
RootFailed == \E p \in Procs : args[p].rank = 0 /\ pc[p] \in ErrPcs

\* C7: once the root worker has ended without writing the queue, the parent
\* never returns: it has no result, and once it waits on the queue it stays
\* there.
C7_ParentHangs ==
    [][RootFailed =>
            /\ ppc' # "done"
            /\ result' = None
            /\ ppc = "get" => ppc' = "get"]_vars

C7_Witness ==
    /\ ppc = "get" /\ mp_queue = << >>
    /\ \E p \in Procs : args[p].rank = 0 /\ pc[p] = "err_save"
    /\ \E p \in Procs : args[p].rank # 0 /\ pc[p] = "exited"

\* The configuration fails the checks of SolverWrapper.__init__ that C8
\* names.
InconsistentConfig ==
    \/ cfg.gpus * cfg.IMS_PER_BATCH * cfg.iter_size # cfg.REAL_BATCH_SIZE
    \/ ~cfg.layer_wise_reduce

\* C8 as stated, its last part: with such a configuration the parent's run
\* ends with the failure, so it is never left waiting for a result once
\* every worker has ended.
C8_FailureSurfaced ==
    ~ /\ InconsistentConfig
      /\ \A p \in Workers : Terminated(p)
      /\ ppc = "get"
      /\ mp_queue = << >>

\* C8 amended: with such a configuration no worker takes a training step,
\* no checkpoint is written and nothing is put on the queue; the failure
\* ends the workers only, and the parent never returns.
C8_FailsBeforeTraining ==
    InconsistentConfig =>
        /\ \A p \in Procs :
                /\ iter[p] = 0 /\ contrib[p] = 0
                /\ pc[p] \in {"unborn", "start", "bcast", "err_rpn",
                              "err_batch", "err_lwr"}
        /\ files = {}
        /\ mp_queue = << >>
        /\ ppc # "done"

C8_Witness ==
    /\ cfg.gpus = 3
    /\ cfg.gpus * cfg.IMS_PER_BATCH * cfg.iter_size # cfg.REAL_BATCH_SIZE
    /\ \A p \in Workers : pc[p] = "err_batch"
    /\ ppc = "get"

\* C9: when the write of the checkpoint fails, the live weight and bias are
\* what they were before the call.
C9_RestoredOnFailedSave ==
    \A p \in Procs : pc[p] = "err_save" =>
        /\ weight[p] = snap_entry[p].weight
        /\ bias[p] = snap_entry[p].bias

\* C10: whatever the solver's display interval, the diagnostic line ends no
\* worker.
C10_DisplayNeverFatal ==
    \A p \in Procs : pc[p] # "err_display"

\* The parent has computed whatever it computes before the workers start.
Prepared == ppc \notin {"prepare", "stats"}

\* C11 as stated: in every run the statistics are computed exactly once
\* before the first worker is started.
C11_StatsOnceEveryRun ==
    spawned > 0 => stats_calls = 1

\* C11 amended: the statistics are computed once when cfg.TRAIN.BBOX_REG is
\* set and never otherwise (means and stds are then None); when computed,
\* that is over the filtered roidb and before the first worker is started;
\* every constructed SolverWrapper holds the parent's means and stds, at
\* every later point of the run.
C11_StatsOnce ==
    /\ stats_calls = (IF cfg.BBOX_REG /\ Prepared THEN 1 ELSE 0)
    /\ spawned > 0 => Prepared
    /\ stats_calls = 1 =>
            /\ stats_roidb = filter_roidb(cfg.roidb)
            /\ Len(stdout) = 1
            /\ stats = cfg.roidb_stats
    /\ ~cfg.BBOX_REG => (Prepared => stats = NoStats)
    /\ \A p \in Procs : pc[p] \notin {"unborn", "start"} =>
            sw_stats[p] = stats

C11_Witness ==
    /\ cfg.gpus = 3 /\ cfg.BBOX_REG
    /\ stats = PerDimStats
    /\ Len(stats_roidb) < Len(cfg.roidb)
    /\ \A p \in Workers : pc[p] = "exited" /\ sw_stats[p] = PerDimStats
    /\ files # {}

\* An example as C12 says it is kept: an overlap at or above FG_THRESH or
\* one in [BG_THRESH_LO, BG_THRESH_HI), and min(height, width) /
\* max(height, width) above MIN_IM_RATIO.
Kept(e) ==
    /\ \E i \in DOMAIN e.max_overlaps :
            \/ e.max_overlaps[i] >= cfg.FG_THRESH
            \/ /\ cfg.BG_THRESH_LO <= e.max_overlaps[i]
               /\ e.max_overlaps[i] < cfg.BG_THRESH_HI
    /\ IF e.height <= e.width
       THEN e.height * Percent > cfg.MIN_IM_RATIO * e.width
       ELSE e.width * Percent > cfg.MIN_IM_RATIO * e.height

\* The positions of the input whose examples are kept.
KeptPositions == {j \in DOMAIN cfg.roidb : Kept(cfg.roidb[j])}

\* The i-th of them, counted from the front.
KeptPosition(i) ==
    CHOOSE j \in KeptPositions :
        Cardinality({k \in KeptPositions : k <= j}) = i

\* C12: what filter_roidb returns is the kept examples of its input, each
\* once, in the order of the input; the count it reports as removed is the
\* input size minus the output size, which is the number of examples not
\* kept, one per example whatever the number of criteria it fails.
C12_FilterKeeps ==
    Len(stdout) = 1 =>
        /\ Len(roidb) = Cardinality(KeptPositions)
        /\ \A i \in DOMAIN roidb : roidb[i] = cfg.roidb[KeptPosition(i)]
        /\ stdout[1].removed = Len(cfg.roidb) - Len(roidb)
        /\ stdout[1].removed =
                Cardinality(DOMAIN cfg.roidb \ KeptPositions)
        /\ stdout[1].num = Len(cfg.roidb)
        /\ stdout[1].num_after = Len(roidb)

C12_Witness ==
    /\ Len(stdout) = 1
    /\ Len(cfg.roidb) = 5
    /\ Len(roidb) = 2 /\ roidb[1] # roidb[2]
    /\ stdout[1].removed = 3
    /\ roidb[1] = cfg.roidb[2] /\ roidb[2] = cfg.roidb[4]
    /\ cfg.roidb[3] = Entry(<< >>, 20, 1)
    /\ cfg.roidb[1] = Entry(<< 50 >>, 1, 10)
    /\ cfg.roidb[5] = Entry(<< 5 >>, 4, 3)

\* C13: a call of filter_roidb on what filter_roidb returned gives back the
\* same examples in the same order and reports 0 removed.
C13_FilterIdempotent ==
    [][Len(stdout) >= 1 =>
            /\ roidb' = roidb
            /\ stdout'[Len(stdout')].removed = 0]_vars

C13_Witness ==
    /\ Len(stdout) = 2
    /\ stdout[1].removed = 3 /\ stdout[1].num_after = 2
    /\ stdout[2] = [removed |-> 0, num |-> 2, num_after |-> 2]
    /\ Len(roidb) = 2 /\ roidb[1] # roidb[2]

\* The value of a digit token, and of a sequence of them read as a decimal
\* numeral.
DigitValue(t) ==
    CASE t = "0" -> 0 [] t = "1" -> 1 [] t = "2" -> 2 [] t = "3" -> 3
      [] t = "4" -> 4 [] t = "5" -> 5 [] t = "6" -> 6 [] t = "7" -> 7
      [] t = "8" -> 8 [] t = "9" -> 9

RECURSIVE NumeralValue(_)
NumeralValue(ds) ==
    IF ds = << >> THEN 0
    ELSE 10 * NumeralValue(SubSeq(ds, 1, Len(ds) - 1)) + DigitValue(ds[Len(ds)])

\* What comes before the iteration number in a checkpoint path: the output
\* directory, the prefix, and the tag after "_" when there is a tag.
PathHead ==
    << cfg.output_dir, "/" >> \o cfg.snapshot_prefix
        \o (IF cfg.SNAPSHOT_INFIX = << >> THEN << >>
            ELSE << "_" >> \o cfg.SNAPSHOT_INFIX)
        \o << "_iter_" >>

\* C14 as stated, its example: prefix "model" and iteration 5000 give
\* model_iter_5000.ckpt, or model_stage2_iter_5000.ckpt with the tag
\* "stage2", under the output directory.
C14_PathAsClaimed ==
    \A p \in Procs :
        (snap_result[p] # None /\ iter[p] = 5000
            /\ cfg.snapshot_prefix = << "model" >>) =>
                snap_result[p] =
                    PathHead \o << "5", "0", "0", "0", ".ckpt" >>

\* C14 amended: the path snapshot() returns, and writes, is
\* <output_dir>/<prefix>[_<tag>]_iter_<N>.caffemodel, the tag part present
\* exactly when the tag is not empty, N the decimal numeral of solver.iter
\* without leading zeros.
C14_PathFormat ==
    \A p \in Procs : snap_result[p] # None =>
        LET path == snap_result[p]
            numeral == SubSeq(path, Len(PathHead) + 1, Len(path) - 1)
        IN  /\ Len(path) >= Len(PathHead) + 2
            /\ SubSeq(path, 1, Len(PathHead)) = PathHead
            /\ path[Len(path)] = ".caffemodel"
            /\ \A i \in DOMAIN numeral :
                    numeral[i] \in {"0", "1", "2", "3", "4", "5", "6", "7",
                                    "8", "9"}
            /\ NumeralValue(numeral) = iter[p]
            /\ Len(numeral) > 1 => numeral[1] # "0"
            /\ \E f \in files : f.path = path

C14_Witness ==
    \E p \in Procs :
        /\ iter[p] = 5000
        /\ snap_result[p] = << "output", "/", "model", "_", "stage2", "_iter_",
                               "5", "0", "0", "0", ".caffemodel" >>
        /\ \E f \in files : f.path = snap_result[p]

\* The workers for which a Process has been started.
Started == {p \in Procs : pc[p] # "unborn"}

\* C15: once the parent has started its workers there are exactly
\* len(gpus) of them, their ranks are 0 .. len(gpus) - 1, each given to one
\* worker, so one worker is the root; new_uid() was called once and every
\* worker was given the id it returned.  While the parent is still
\* starting them, the workers started so far hold the first ranks.
C15_RanksAndGroupId ==
    /\ Cardinality(Started) = spawned
    /\ spawned <= cfg.gpus
    /\ ppc \in {"join", "get", "done"} => spawned = cfg.gpus
    /\ {args[p].rank : p \in Started} = 0 .. (spawned - 1)
    /\ \A p \in Started, q \in Started :
            args[p].rank = args[q].rank => p = q
    /\ spawned > 0 => Cardinality({p \in Started : args[p].rank = 0}) = 1
    /\ uid_calls = (IF ppc = "prepare" THEN 0 ELSE 1)
    /\ \A p \in Started : args[p].nccl_uid = nccl_uid /\ nccl_uid = uid_calls
    /\ \A p \in Procs : rank[p] # -1 => rank[p] = args[p].rank

C15_Witness ==
    /\ ppc = "done" /\ cfg.gpus = 3
    /\ {rank[p] : p \in Started} = {0, 1, 2}
    /\ \A p \in Started : pc[p] = "exited" /\ args[p].nccl_uid = 1

\* What __init__ has done to the solver when it returns, in order.
ConstructionOrder ==
    (IF cfg.pretrained_model # None THEN << "copy_from" >> ELSE << >>)
        \o << "bcast", "add_callback", "after_backward" >>

\* The workers whose __init__ has returned.
Constructed(p) ==
    pc[p] \notin {"unborn", "start", "bcast", "err_rpn", "err_batch", "err_lwr"}

\* The parameters of the root when it enters the broadcast.
RootInitialNet ==
    IF cfg.pretrained_model # None THEN cfg.pretrained_model ELSE cfg.net_init

\* C16: a worker whose __init__ has returned has loaded the pretrained
\* weights (when given), then taken part in the broadcast, then registered
\* the gradient synchronization, and only such a worker begins a solver
\* step; a worker that has not stepped yet holds the root's initial
\* parameters; and once any rank has applied its first update, every rank
\* has been through the broadcast.
C16_ConstructedBeforeStep ==
    /\ \A p \in Procs : Constructed(p) => init_log[p] = ConstructionOrder
    /\ \A p \in Procs : (iter[p] > 0 \/ contrib[p] > 0) => Constructed(p)
    /\ \A p \in Procs : (Constructed(p) /\ iter[p] = 0
                            /\ pc[p] \in {"constructed", "loop", "sync"}) =>
            /\ weight[p] = RootInitialNet.weight
            /\ bias[p] = RootInitialNet.bias
            /\ other[p] = RootInitialNet.other
    /\ (\E p \in Procs : iter[p] > 0) => \A q \in Workers : Constructed(q)

C16_Witness ==
    /\ cfg.gpus = 3 /\ cfg.pretrained_model # None
    /\ \E p \in Workers : iter[p] = 1
    /\ \E q \in Workers :
            /\ pc[q] = "sync" /\ iter[q] = 0
            /\ weight[q] = PretrainedNet.weight
            /\ init_log[q] = << "copy_from", "bcast", "add_callback",
                                "after_backward" >>

RECURSIVE Updated(_, _)
\* A parameter value after k updates of the solver.
Updated(v, k) == IF k = 0 THEN v ELSE SgdUpdate(Updated(v, k - 1))

\* The live regression head of p holds the values training has given it
\* (normalized space): the initial ones updated once per counted iteration.
HoldsTrainedValues(p) ==
    /\ weight[p] = [d \in Dims |-> [c \in WeightCols |->
                        Updated(RootInitialNet.weight[d][c], iter[p])]]
    /\ bias[p] = [d \in Dims |-> Updated(RootInitialNet.bias[d], iter[p])]

InSnapshot(p) == pc[p] \in {"snapshot", "snap_save", "snap_restore"}

\* C17: on the root, whenever a solver step is about to begin or is in
\* progress the live regression head holds its trained, normalized values;
\* other values are live only between the rescale and the restore of a
\* snapshot() call; and while the root is inside snapshot() it neither
\* begins nor completes a step.
C17_SnapshotAtomic ==
    [][\A p \in Procs : (rank'[p] = 0 /\ Constructed(p)' /\ ~Terminated(p)') =>
            /\ pc'[p] \in {"constructed", "loop", "sync"} =>
                    HoldsTrainedValues(p)'
            /\ ~HoldsTrainedValues(p)' =>
                    pc'[p] \in {"snap_save", "snap_restore"}
            /\ InSnapshot(p) =>
                    /\ iter'[p] = iter[p]
                    /\ contrib'[p] = contrib[p]
                    /\ pc'[p] # "sync"]_vars

C17_Witness ==
    \E p \in Procs :
        /\ rank[p] = 0 /\ pc[p] = "sync" /\ iter[p] >= 2
        /\ last_snapshot_iter[p] = iter[p]
        /\ scale_bbox_params(p)
        /\ HoldsTrainedValues(p)
        /\ \E f \in files :
                /\ f.path = IterPath(iter[p])
                /\ f.weight # weight[p] /\ f.bias # bias[p]

\* The passes of train_model's loop that worker 0 has begun, in a run of
\* TrainSpec (where the count starts at 0 with the call).
Passes == contrib[0]

\* max(0, n)
Positive(n) == IF n > 0 THEN n ELSE 0

\* C18: train_model, its solver steps all completing, returns; the counter
\* never decreases and changes only by the step of a loop pass, by exactly
\* 1; the passes begun and the iterations counted since the call agree; on
\* return the loop has run max(0, max_iters - start) times, and the counter
\* is max_iters when the start was not above it (and the start otherwise).
C18_LoopTerminates ==
    /\ <>(pc[0] = "returned")
    /\ [][/\ iter'[0] \in {iter[0], iter[0] + 1}
          /\ iter'[0] # iter[0] => (pc[0] = "sync" /\ Passes' = Passes)
          /\ Passes' # Passes =>
                (Passes' = Passes + 1 /\ pc[0] = "loop" /\ pc'[0] = "sync")]_vars
    /\ [](pc[0] # "constructed" =>
            iter[0] - start_iter[0] =
                Passes - (IF pc[0] = "sync" THEN 1 ELSE 0))
    /\ [](pc[0] = "returned" =>
            /\ Passes = Positive(cfg.max_iters - start_iter[0])
            /\ start_iter[0] <= cfg.max_iters => iter[0] = cfg.max_iters
            /\ start_iter[0] > cfg.max_iters => iter[0] = start_iter[0])

\* The iteration a checkpoint path names.
IterOf(path) == CHOOSE k \in StartIterVals : IterPath(k) = path

\* C19: the list train_model returns on the root is not empty, each of its
\* paths names an iteration, these iterations increase strictly, the last
\* one is the solver's final iteration, and each path is a file written;
\* when the loop never runs the list has exactly one path; when max_iters
\* is a multiple of SNAPSHOT_ITERS reached by the loop the list has one
\* path per multiple passed and no more.
C19_RootListNonEmpty ==
    (rank[0] = 0 /\ pc[0] = "returned") =>
        LET paths == model_paths[0]
            start == start_iter[0]
        IN  /\ paths # << >>
            /\ paths[Len(paths)] = IterPath(iter[0])
            /\ \A i \in DOMAIN paths :
                    /\ \E k \in StartIterVals : paths[i] = IterPath(k)
                    /\ \E f \in files : f.path = paths[i]
            /\ \A i \in DOMAIN paths, j \in DOMAIN paths :
                    i < j => IterOf(paths[i]) < IterOf(paths[j])
            /\ cfg.max_iters <= start => Len(paths) = 1
            /\ (cfg.max_iters > start
                    /\ cfg.max_iters % cfg.SNAPSHOT_ITERS = 0) =>
                    Len(paths) =
                        Cardinality({k \in (start + 1) .. cfg.max_iters :
                                        k % cfg.SNAPSHOT_ITERS = 0})

C19_Witness ==
    /\ pc[0] = "returned"
    /\ start_iter[0] = 2 /\ cfg.max_iters = 8 /\ cfg.SNAPSHOT_ITERS = 4
    /\ model_paths[0] = << IterPath(4), IterPath(8) >>
    /\ last_snapshot_iter[0] = 8

====
